---------------------------- MODULE Spec2Model ----------------------------
(* A model of my_ssg (src/app.py): the front-matter parser, the derived    *)
(* names of the content-tree scanner, and App.build() (clean, render,      *)
(* static copy) over an output filesystem.                                 *)
(*                                                                         *)
(* Names are sequences of one-character strings, paths are sequences of    *)
(* names, and a filesystem is a function from paths to nodes.              *)
EXTENDS Integers, Sequences, FiniteSets, TLC

VARIABLES
    nm_in,        \* Folder._scan: the name of the directory entry x
    nm_kind,      \* "dir" (x.is_dir()) or "file" (x.is_file())
    nm_out,       \* the derived name the scanner records, or NotScanned
    pf_file,      \* parse_md_file: the lines of the file at `path`
    pf_header,    \* parse_md_file: the header_only argument
    pf_result,    \* parse_md_file: its outcome, or NotParsed
    cdirs,        \* content tree: the directories (paths of raw names)
    cfiles,       \* content tree: path of a regular file |-> its lines
    site,         \* the site-wide static directory (a filesystem)
    theme,        \* the active theme's static directory (a filesystem)
    pub,          \* the output root config['app']['public'] (a filesystem)
    pub0,         \* the output root as it was before build()
    pc,           \* position of build()
    todo,         \* pages _build has still to render, in its order
    written,      \* the _write calls that wrote an index.html, in order
    copied,       \* static entries copied so far, in order
    err           \* the exception that ended build(), or NoError

vars == <<nm_in, nm_kind, nm_out, pf_file, pf_header, pf_result, cdirs, cfiles,
          site, theme, pub, pub0, pc, todo, written, copied, err>>

nameVars == <<nm_in, nm_kind, nm_out>>
parseVars == <<pf_file, pf_header, pf_result>>
buildVars == <<cdirs, cfiles, site, theme, pub, pub0, pc, todo, written, copied, err>>

-----------------------------------------------------------------------------
(* Strings *)

Digits == {"0", "1", "2", "3", "4", "5", "6", "7", "8", "9"}

IsDigit(c) == c \in Digits

\* str.endswith
EndsWith(s, suf) ==
    /\ Len(s) >= Len(suf)
    /\ SubSeq(s, Len(s) - Len(suf) + 1, Len(s)) = suf

\* str.startswith
StartsWith(s, pre) ==
    /\ Len(s) >= Len(pre)
    /\ SubSeq(s, 1, Len(pre)) = pre

\* ord() of the characters the model's names use
Ord(c) ==
    CASE c = "-" -> 45
      [] c = "." -> 46
      [] c = "1" -> 49
      [] c = "2" -> 50
      [] c = "_" -> 95
      [] c = "a" -> 97
      [] c = "b" -> 98
      [] c = "c" -> 99
      [] c = "d" -> 100
      [] c = "g" -> 103
      [] c = "i" -> 105
      [] c = "m" -> 109
      [] c = "t" -> 116
      [] OTHER -> 120

\* Python's str < str: code points, left to right, a proper prefix first
RECURSIVE StrLess(_, _)
StrLess(a, b) ==
    IF b = <<>> THEN FALSE
    ELSE IF a = <<>> THEN TRUE
    ELSE IF Ord(Head(a)) # Ord(Head(b)) THEN Ord(Head(a)) < Ord(Head(b))
    ELSE StrLess(Tail(a), Tail(b))

\* sorted(): the elements of a set of names in ascending order
RECURSIVE SortNames(_)
SortNames(S) ==
    IF S = {} THEN <<>>
    ELSE LET m == CHOOSE x \in S : \A y \in S \ {x} : StrLess(x, y)
         IN  <<m>> \o SortNames(S \ {m})

-----------------------------------------------------------------------------
(* Folder.get_name and the scanner's derived names *)

\* \d+ is greedy: the longest run of leading digits
LeadDigits(s) ==
    CHOOSE k \in 0..Len(s) :
        /\ \A i \in 1..k : IsDigit(s[i])
        /\ (k < Len(s) => ~IsDigit(s[k + 1]))

\* (?P<name>.+) : `.` does not match a newline
DotPlus(s) ==
    LET stop == {i \in 1..Len(s) : s[i] = "\n"}
        n == IF stop = {} THEN Len(s)
             ELSE (CHOOSE i \in stop : \A j \in stop : i <= j) - 1
    IN  SubSeq(s, 1, n)

\* Folder.pattern.match(name) succeeds
PatternMatches(s) ==
    LET k == LeadDigits(s)
    IN  /\ k >= 1
        /\ Len(s) >= k + 2
        /\ s[k + 1] = "."
        /\ s[k + 2] # "\n"

get_name(s) ==
    IF PatternMatches(s)
    THEN DotPlus(SubSeq(s, LeadDigits(s) + 2, Len(s)))
    ELSE s

\* os.path.splitext on a name without separators: <<root, ext>>
splitext(p) ==
    LET dots == {i \in 1..Len(p) : p[i] = "."}
        d == IF dots = {} THEN 0 ELSE CHOOSE i \in dots : \A j \in dots : j <= i
    IN  IF d > 0 /\ \E i \in 1..(d - 1) : p[i] # "."
        THEN <<SubSeq(p, 1, d - 1), SubSeq(p, d, Len(p))>>
        ELSE <<p, <<>>>>

DotMd == <<".", "m", "d">>
IndexMd == <<"_", "i", "n", "d", "e", "x", ".", "m", "d">>

\* _scan: x is recorded as a content file
IsContentFile(name) == EndsWith(name, DotMd) /\ name # IndexMd

\* _scan: the second component of the pair appended to self.files
FileDerivedName(name) == splitext(get_name(name))[1]

\* _scan: a directory x is scanned into a child folder
IsScannedDir(name) == ~StartsWith(name, <<".">>)

-----------------------------------------------------------------------------
(* parse_md_file *)

\* A line of a content file. dash: line.startswith('---'). A line with a
\* key is the YAML line `key: val`; any other line is text (a YAML comment
\* in the front matter, markdown in the body) with val its words.
Line(dash, key, val) == [dash |-> dash, key |-> key, val |-> val]

Delim == Line(TRUE, "", <<"---">>)
Comment == Line(FALSE, "", <<"#", "note">>)
KeyLine(k, v) == Line(FALSE, k, <<v>>)

\* f.readline(): the line at pos, '' at end of file
EofLine == Line(FALSE, "", <<>>)
ReadLine(file, pos) == IF pos <= Len(file) THEN file[pos] ELSE EofLine

\* the scan bound of `if i > 50`
Limit == 50

\* yaml.load result None; and the dict it returns otherwise
NoneVal == [none |-> TRUE, map |-> <<>>]
Dict(m) == [none |-> FALSE, map |-> m]

\* yaml.load(''.join(lines)): the mapping of the key lines, a later
\* duplicate key replacing an earlier one; None when there is no key line
YamlLoad(lines) ==
    LET keys == {lines[i].key : i \in {j \in 1..Len(lines) : lines[j].key # ""}}
        last(k) == CHOOSE i \in 1..Len(lines) :
                      /\ lines[i].key = k
                      /\ \A j \in (i + 1)..Len(lines) : lines[j].key # k
    IN  IF keys = {} THEN NoneVal
        ELSE Dict([k \in keys |-> lines[last(k)].val])

\* cmark.to_html of the rest of the file: a heading, a thematic break or
\* a paragraph per line
RECURSIVE ToHtml(_)
ToHtml(body) ==
    IF body = <<>> THEN <<>>
    ELSE LET l == Head(body)
             h == IF l.dash THEN <<"<hr />">>
                  ELSE IF l.val = <<>> THEN <<>>
                  ELSE IF Head(l.val) = "#"
                  THEN <<"<h1>">> \o Tail(l.val) \o <<"</h1>">>
                  ELSE <<"<p>">> \o l.val \o <<"</p>">>
         IN  h \o ToHtml(Tail(body))

Raised(e) == [ok |-> FALSE, err |-> e, page |-> NoneVal]
Returned(p) == [ok |-> TRUE, err |-> "", page |-> p]

\* page['content'] = cmark.to_html(f.read())
SetContent(page, html) ==
    IF page.none THEN Raised("TypeError")
    ELSE Returned(Dict([k \in DOMAIN page.map \cup {"content"} |->
                          IF k = "content" THEN html ELSE page.map[k]]))

\* the while loop: `line` is the line at pos, i lines are buffered
RECURSIVE ScanHeader(_, _, _, _, _)
ScanHeader(file, header_only, i, pos, lines) ==
    LET line == ReadLine(file, pos)
    IN  IF line.dash
        THEN LET page == YamlLoad(lines)
             IN  IF header_only THEN Returned(page)
                 ELSE SetContent(page, ToHtml(SubSeq(file, pos + 1, Len(file))))
        ELSE IF i > Limit THEN Raised("SystemError")
        ELSE ScanHeader(file, header_only, i + 1, pos + 1, Append(lines, line))

parse_md_file(file, header_only) ==
    IF ~ReadLine(file, 1).dash THEN Raised("SystemError")
    ELSE ScanHeader(file, header_only, 0, 2, <<>>)

\* dict.get(key, default)
Get(page, key, default) ==
    IF key \in DOMAIN page.map THEN page.map[key] ELSE default

-----------------------------------------------------------------------------
(* Inputs of the scanner's naming and of the parser *)

\* the characters of the directory entries whose names are derived
NameChars == {"1", "2", ".", "m", "d"}
MaxNameLen == 5
NameInputs == UNION {[1..n -> NameChars] : n \in 1..MaxNameLen}

NotScanned == <<"not scanned">>

\* front-matter keys a file may declare, in the order it declares them
KeyOrder == <<"template", "title", "files_template">>
KeyValue(k) ==
    CASE k = "template" -> "custom.html"
      [] k = "title" -> "About"
      [] OTHER -> "list.html"

RECURSIVE KeyLines(_, _)
KeyLines(ks, i) ==
    IF i > Len(KeyOrder) THEN <<>>
    ELSE (IF KeyOrder[i] \in ks
          THEN <<KeyLine(KeyOrder[i], KeyValue(KeyOrder[i]))>> ELSE <<>>)
         \o KeyLines(ks, i + 1)

\* the largest number of comment lines in a front matter
MaxPad == 53

Bodies == {<<>>, <<Line(FALSE, "", <<"#", "Hi">>)>>,
           <<Line(FALSE, "", <<"text">>), Delim>>}

\* first line, declared keys, n comment lines, then (if closed) the
\* second delimiter and the body
MdFile(first, ks, n, closed, body) ==
    <<first>> \o KeyLines(ks, 1) \o [i \in 1..n |-> Comment]
        \o (IF closed THEN <<Delim>> \o body ELSE <<>>)

ParseInputs ==
    {MdFile(first, ks, n, closed, body) :
        first \in {Delim, Comment}, ks \in SUBSET {"template", "title"},
        n \in 0..MaxPad, closed \in BOOLEAN, body \in Bodies}

NotParsed == [ok |-> FALSE, err |-> "not parsed", page |-> NoneVal]

-----------------------------------------------------------------------------
(* Filesystems *)

DirNode == [kind |-> "dir", data |-> [by |-> "", tpl |-> <<>>, src |-> <<>>]]
FileNode(d) == [kind |-> "file", data |-> d]

\* a directory that does not exist
Missing == <<>>

\* os.path.exists
Exists(fs, p) == p \in DOMAIN fs
IsDir(fs, p) == Exists(fs, p) /\ fs[p].kind = "dir"
IsFile(fs, p) == Exists(fs, p) /\ fs[p].kind = "file"

\* os.scandir(root of fs): the names of the immediate entries
Entries(fs) == {p[1] : p \in {q \in DOMAIN fs : Len(q) = 1}}

Prefixes(p) == {SubSeq(p, 1, k) : k \in 0..Len(p)}

\* a path as the filesystem resolves it: os.path.join(out_dir, '') ends in
\* a separator and names out_dir itself
Resolve(p) == SelectSeq(p, LAMBDA n : n # <<>>)

\* os.makedirs(p, exist_ok=True) can create p: no component is a file
CanMakeDirs(fs, p) == \A q \in Prefixes(p) : ~IsFile(fs, q)

MakeDirs(fs, p) ==
    [q \in DOMAIN fs \cup Prefixes(p) |-> IF q \in DOMAIN fs THEN fs[q] ELSE DirNode]

\* the filesystem with the file p written
WriteFile(fs, p, d) ==
    [q \in DOMAIN fs \cup {p} |-> IF q = p THEN FileNode(d) ELSE fs[q]]

GitName == <<".", "g", "i", "t">>
IndexHtml == <<"i", "n", "d", "e", "x", ".", "h", "t", "m", "l">>

-----------------------------------------------------------------------------
(* The scanned content tree: the fields of Folder *)

Last(p) == p[Len(p)]

\* Folder.name: '' for the root (App.__init__), else get_name(x.name)
FolderName(p) == IF p = <<>> THEN <<>> ELSE get_name(Last(p))

\* Folder.is_index
is_index(p) == Append(p, IndexMd) \in DOMAIN cfiles

\* Folder.index: {} unless _index.md was parsed header-only
FolderIndex(p) ==
    IF is_index(p) THEN parse_md_file(cfiles[Append(p, IndexMd)], TRUE).page
    ELSE Dict(<<>>)

\* Folder.files after the sort: the raw names, ascending
FolderFiles(p) ==
    SortNames({n \in {q[Len(q)] : q \in {r \in DOMAIN cfiles : Len(r) = Len(p) + 1}} :
                  /\ Append(p, n) \in DOMAIN cfiles
                  /\ IsContentFile(n)})

\* Folder.folders after the sort: siblings' paths share self.path, so the
\* order of the paths is the order of the names
FolderFolders(p) ==
    LET names == SortNames({n \in {q[Len(q)] : q \in {r \in cdirs : Len(r) = Len(p) + 1}} :
                               /\ Append(p, n) \in cdirs
                               /\ IsScannedDir(n)})
    IN  [i \in 1..Len(names) |-> Append(p, names[i])]

\* Folder.__init__ returns for p and everything below it: every _index.md
\* parses header-only
RECURSIVE ScanSucceeds(_)
ScanSucceeds(p) ==
    /\ is_index(p) => parse_md_file(cfiles[Append(p, IndexMd)], TRUE).ok
    /\ \A c \in {FolderFolders(p)[i] : i \in 1..Len(FolderFolders(p))} : ScanSucceeds(c)

-----------------------------------------------------------------------------
(* App._build: the pages in the order the recursion reaches them *)

\* Job with the raw file name where the derived name belongs
JobRawName(kind, folder, raw, out_dir, name) ==
    [kind |-> kind, folder |-> folder, raw |-> raw, out_dir |-> out_dir,
     name |-> IF kind = "file" THEN raw ELSE name]

\* one page: the folder, the raw file name, and the arguments of mkdir
Job(kind, folder, raw, out_dir, name) ==
    [kind |-> kind, folder |-> folder, raw |-> raw, out_dir |-> out_dir, name |-> name]

\* The element of a one-element set, used below to evaluate a folder's
\* lists once before walking them
The(S) == CHOOSE r \in S : TRUE

RECURSIVE BuildJobs(_, _)
RECURSIVE BuildFiles(_, _, _, _)
RECURSIVE BuildFolders(_, _, _)

\* for f in folder.files: ... self.mkdir(out_dir, f[1])
BuildFiles(folder, files, out_dir, i) ==
    IF i > Len(files) THEN <<>>
    ELSE <<Job("file", folder, files[i], out_dir, FileDerivedName(files[i]))>>
         \o BuildFiles(folder, files, out_dir, i + 1)

\* BuildFolders with every child built into its parent's directory
BuildFoldersSameDir(subs, out_dir, i) ==
    IF i > Len(subs) THEN <<>>
    ELSE The({BuildJobs(f, out_dir) : f \in {subs[i]}})
         \o BuildFolders(subs, out_dir, i + 1)

\* for f in folder.folders: self._build(f, os.path.join(out_dir, f.name))
BuildFolders(subs, out_dir, i) ==
    IF i > Len(subs) THEN <<>>
    ELSE The({BuildJobs(f, Append(out_dir, FolderName(f))) : f \in {subs[i]}})
         \o BuildFolders(subs, out_dir, i + 1)

BuildJobs(folder, out_dir) ==
    (IF is_index(folder)
     THEN <<Job("index", folder, IndexMd, out_dir, FolderName(folder))>>
     ELSE <<>>)
    \o The({BuildFiles(folder, files, out_dir, 1) : files \in {FolderFiles(folder)}})
    \o The({BuildFolders(subs, out_dir, 1) : subs \in {FolderFolders(folder)}})

\* the templates of <themes>/<theme>/layouts
Layouts == {<<"index.html">>, <<"page.html">>, <<"list.html">>, <<"custom.html">>}

\* TemplateFor with the folder's files_template ahead of the page's own
\* template, for index pages too
TemplateForFolderFirst(job, page) ==
    Get(FolderIndex(job.folder), "files_template",
        Get(page, "template",
            IF job.kind = "index" THEN <<"index.html">> ELSE <<"page.html">>))

\* the template _build selects for a parsed page
TemplateFor(job, page) ==
    IF job.kind = "index"
    THEN Get(page, "template", <<"index.html">>)
    ELSE Get(page, "template",
             Get(FolderIndex(job.folder), "files_template", <<"page.html">>))

\* tpl.render(...): what the page written for a job holds
Rendered(job, template) ==
    [by |-> "render", tpl |-> template, src |-> Append(job.folder, job.raw)]

NoError == "none"

\* Abort with the exception caught and the build going on to the static copy
AbortSwallowed(e) ==
    /\ pc' = "copy_site"
    /\ err' = e

\* an exception leaves build()
Abort(e) ==
    /\ pc' = "aborted"
    /\ err' = e

\* build(), the clean step
Clean ==
    /\ pc = "clean"
    /\ pub' = IF Exists(pub, <<>>)
              THEN [q \in {r \in DOMAIN pub : r = <<>> \/ r[1] = GitName} |-> pub[q]]
              ELSE pub
    /\ pc' = "render"
    /\ UNCHANGED <<nameVars, parseVars, cdirs, cfiles, site, theme, pub0, todo, written, copied, err>>

\* _build, one page: parse, select the template, mkdir, _write
Render ==
    /\ pc = "render"
    /\ todo # <<>>
    /\ LET job == Head(todo)
           parsed == parse_md_file(cfiles[Append(job.folder, job.raw)], FALSE)
           path == Resolve(Append(job.out_dir, job.name))
           made == IF Exists(pub, path) THEN pub ELSE MakeDirs(pub, path)
           template == TemplateFor(job, parsed.page)
           target == Append(path, IndexHtml)
       IN  IF ~parsed.ok
           THEN Abort(parsed.err) /\ UNCHANGED <<pub, todo, written>>
           ELSE IF job.kind = "file" /\ FolderIndex(job.folder).none
           THEN Abort("AttributeError") /\ UNCHANGED <<pub, todo, written>>
           ELSE IF ~Exists(pub, path) /\ ~CanMakeDirs(pub, path)
           THEN Abort("NotADirectoryError") /\ UNCHANGED <<pub, todo, written>>
           ELSE IF template \notin Layouts
           THEN Abort("TemplateNotFound") /\ pub' = made /\ UNCHANGED <<todo, written>>
           ELSE IF ~IsDir(made, path)
           THEN Abort("NotADirectoryError") /\ pub' = made /\ UNCHANGED <<todo, written>>
           ELSE IF IsDir(made, target)
           THEN Abort("IsADirectoryError") /\ pub' = made /\ UNCHANGED <<todo, written>>
           ELSE /\ pub' = WriteFile(made, target, Rendered(job, template))
                /\ written' = Append(written,
                       [job |-> job, path |-> target, template |-> template])
                /\ todo' = Tail(todo)
                /\ UNCHANGED <<pc, err>>
    /\ UNCHANGED <<nameVars, parseVars, cdirs, cfiles, site, theme, pub0, copied>>

\* _build returns to build()
EndRender ==
    /\ pc = "render"
    /\ todo = <<>>
    /\ pc' = "copy_site"
    /\ UNCHANGED <<nameVars, parseVars, cdirs, cfiles, site, theme, pub, pub0, todo, written, copied, err>>

-----------------------------------------------------------------------------
(* App._copy_static_files *)

\* the entries of a static directory that copy() has not reached yet;
\* os.scandir yields them in no particular order
Pending(fs, who) ==
    Entries(fs) \ {copied[i].name : i \in {j \in 1..Len(copied) : copied[j].from = who}}

\* shutil.copytree(x.path, dst): the tree below the entry x, placed at dst
Subtree(fs, x, dst) ==
    LET below == {q \in DOMAIN fs : Len(q) >= 1 /\ q[1] = x}
    IN  [r \in {dst \o Tail(q) : q \in below} |->
            fs[CHOOSE q \in below : dst \o Tail(q) = r]]

\* copy(src), one entry x of the static directory fs
CopyEntry(fs, who, x) ==
    LET dst == <<x>>
        \* shutil.copy: a destination that is a directory receives the file
        \* under its own name
        into == IF IsDir(pub, dst) THEN <<x, x>> ELSE dst
    IN  /\ copied' = Append(copied, [from |-> who, name |-> x])
        /\ IF fs[<<x>>].kind = "file"
           THEN IF ~IsDir(pub, SubSeq(into, 1, Len(into) - 1))
                THEN Abort("FileNotFoundError") /\ UNCHANGED pub
                ELSE IF IsDir(pub, into)
                THEN Abort("IsADirectoryError") /\ UNCHANGED pub
                ELSE /\ pub' = WriteFile(pub, into, fs[<<x>>].data)
                     /\ UNCHANGED <<pc, err>>
           ELSE IF Exists(pub, dst)
                THEN Abort("FileExistsError") /\ UNCHANGED pub
                ELSE /\ pub' = [q \in DOMAIN MakeDirs(pub, <<>>)
                                      \cup DOMAIN Subtree(fs, x, dst) |->
                                  IF q \in DOMAIN Subtree(fs, x, dst)
                                  THEN Subtree(fs, x, dst)[q]
                                  ELSE MakeDirs(pub, <<>>)[q]]
                     /\ UNCHANGED <<pc, err>>

\* copy(self.config['app']['static']), one entry
CopySite ==
    /\ pc = "copy_site"
    /\ Exists(site, <<>>)
    /\ \E x \in Pending(site, "site") : CopyEntry(site, "site", x)
    /\ UNCHANGED <<nameVars, parseVars, cdirs, cfiles, site, theme, pub0, todo, written>>

\* the site-wide directory is absent or exhausted
SiteDone ==
    /\ pc = "copy_site"
    /\ Exists(site, <<>>) => Pending(site, "site") = {}
    /\ pc' = "copy_theme"
    /\ UNCHANGED <<nameVars, parseVars, cdirs, cfiles, site, theme, pub, pub0, todo, written, copied, err>>

\* copy(<themes>/<theme>/static), one entry
CopyTheme ==
    /\ pc = "copy_theme"
    /\ Exists(theme, <<>>)
    /\ \E x \in Pending(theme, "theme") : CopyEntry(theme, "theme", x)
    /\ UNCHANGED <<nameVars, parseVars, cdirs, cfiles, site, theme, pub0, todo, written>>

\* the theme's directory is absent or exhausted: build() returns
ThemeDone ==
    /\ pc = "copy_theme"
    /\ Exists(theme, <<>>) => Pending(theme, "theme") = {}
    /\ pc' = "done"
    /\ UNCHANGED <<nameVars, parseVars, cdirs, cfiles, site, theme, pub, pub0, todo, written, copied, err>>

-----------------------------------------------------------------------------
(* Inputs of build() *)

F_1a == <<"1", ".", "a", ".", "m", "d">>
F_2a == <<"2", ".", "a", ".", "m", "d">>
F_b == <<"b", ".", "m", "d">>
F_c == <<"c", ".", "m", "d">>
F_git == <<"1", ".", ".", "g", "i", "t", ".", "m", "d">>
D_1a == <<"1", ".", "a">>
D_2b == <<"2", ".", "b">>
D_2a == <<"2", ".", "a">>

Text(w) == Line(FALSE, "", w)

\* what a content file of each name holds
FileText(name) ==
    CASE name = F_1a -> <<Delim, KeyLine("title", "About"), Delim, Text(<<"#", "Hi">>)>>
      [] name = F_2a -> <<Delim, KeyLine("template", "custom.html"), Delim, Text(<<"two">>)>>
      [] name = F_b -> <<Delim, KeyLine("template", "missing.html"), Delim>>
      [] name = F_c -> <<Text(<<"no", "front", "matter">>)>>
      [] OTHER -> <<Delim, KeyLine("title", "Git"), Delim, Text(<<"git">>)>>

FileNames == {F_1a, F_2a, F_b, F_c, F_git}

\* the _index.md files a folder may hold
IndexTexts ==
    {<<Delim, KeyLine("files_template", "list.html"), Delim, Text(<<"list">>)>>,
     <<Delim, KeyLine("template", "custom.html"), Delim>>}

\* the directories of a content tree
TreeShapes ==
    {{<<>>},
     {<<>>, <<D_1a>>},
     {<<>>, <<D_1a>>, <<D_2b>>},
     {<<>>, <<D_1a>>, <<D_1a, D_2b>>},
     {<<>>, <<D_1a>>, <<D_2a>>}}

\* the largest number of content files in a tree
MaxFiles == 2

\* the content trees over a set of directories
ContentFiles(dirs) ==
    LET slots == {Append(d, n) : d \in dirs, n \in FileNames}
        picks == {S \in SUBSET slots : Cardinality(S) <= MaxFiles}
        idx == {Append(d, IndexMd) : d \in dirs}
    IN  UNION {UNION {{[q \in S \cup I |->
                          IF q \in S THEN FileText(q[Len(q)]) ELSE f[q]] :
                       f \in [I -> IndexTexts]} : I \in SUBSET idx} : S \in picks}

Old(name) == [by |-> "old", tpl |-> <<>>, src |-> <<name>>]
Asset(who, path) == [by |-> who, tpl |-> <<>>, src |-> path]

HeadName == <<"H", "E", "A", "D">>
OldName == <<"o", "l", "d">>
A == <<"a">>
Logo == <<"l", "o", "g", "o">>
Css == <<"c", "s", "s">>

\* an output root left by an earlier build, with a repository in .git
PubOld ==
    (<<>> :> DirNode) @@ (<<GitName>> :> DirNode)
    @@ (<<GitName, HeadName>> :> FileNode(Old(HeadName)))
    @@ (<<A>> :> DirNode) @@ (<<A, IndexHtml>> :> FileNode(Old(IndexHtml)))
    @@ (<<OldName>> :> FileNode(Old(OldName)))

\* a static directory: for each name no entry, a file, or a directory
\* holding one file
StaticDir(who, kinds) ==
    LET names == {n \in DOMAIN kinds : kinds[n] # "none"}
        dirs == {n \in names : kinds[n] = "dir"}
    IN  [q \in {<<>>} \cup {<<n>> : n \in names} \cup {<<n, Logo>> : n \in dirs} |->
            IF q = <<>> \/ (Len(q) = 1 /\ q[1] \in dirs) THEN DirNode
            ELSE FileNode(Asset(who, q))]

StaticNames == {Logo, Css}

StaticDirs(who) ==
    {Missing} \cup {StaticDir(who, k) : k \in [StaticNames -> {"none", "file", "dir"}]}

IdleBuild ==
    /\ cdirs = {}
    /\ cfiles = <<>>
    /\ site = Missing
    /\ theme = Missing
    /\ pub = Missing
    /\ pub0 = Missing
    /\ pc = "idle"
    /\ todo = <<>>
    /\ written = <<>>
    /\ copied = <<>>
    /\ err = NoError

IdleName ==
    /\ nm_in = <<>>
    /\ nm_kind = "none"
    /\ nm_out = NotScanned

IdleParse ==
    /\ pf_file = <<>>
    /\ pf_header = FALSE
    /\ pf_result = NotParsed

\* App(config) has returned: the tree is scanned, build() is about to run
StartBuild ==
    /\ ScanSucceeds(<<>>)
    /\ pub0 = pub
    /\ pc = "clean"
    /\ todo = BuildJobs(<<>>, <<>>)
    /\ written = <<>>
    /\ copied = <<>>
    /\ err = NoError

\* content trees of every shape, over an output root of an earlier build
\* and a logo in both static directories
Init ==
    /\ IdleName
    /\ IdleParse
    /\ cdirs \in TreeShapes
    /\ cfiles \in ContentFiles(cdirs)
    /\ site = StaticDir("site", [n \in {Logo} |-> "file"])
    /\ theme = StaticDir("theme", [n \in {Logo} |-> "file"])
    /\ pub = PubOld
    /\ StartBuild

Next ==
    \/ Clean
    \/ Render
    \/ EndRender
    \/ CopySite
    \/ SiteDone
    \/ CopyTheme
    \/ ThemeDone

Spec == Init /\ [][Next]_vars

\* a root index and one page, over every pair of static directories and an
\* output root that may not exist yet
InitStatic ==
    /\ IdleName
    /\ IdleParse
    /\ cdirs = {<<>>}
    /\ cfiles = (<<IndexMd>> :> <<Delim, KeyLine("title", "Home"), Delim>>)
                @@ (<<F_1a>> :> FileText(F_1a))
    /\ site \in StaticDirs("site")
    /\ theme \in StaticDirs("theme")
    /\ pub \in {Missing, PubOld}
    /\ StartBuild

SpecStatic == InitStatic /\ [][Next]_vars

-----------------------------------------------------------------------------
(* The scanner's naming, one directory entry at a time *)

\* _scan, the branch of a subdirectory: Folder(str(x.path), get_name(x.name))
ScanDir ==
    /\ nm_kind = "dir"
    /\ nm_out = NotScanned
    /\ IsScannedDir(nm_in)
    /\ nm_out' = get_name(nm_in)
    /\ UNCHANGED <<nm_in, nm_kind, parseVars, buildVars>>

\* _scan, the branch of a content file: self.files.append((x.name, name))
ScanFile ==
    /\ nm_kind = "file"
    /\ nm_out = NotScanned
    /\ IsContentFile(nm_in)
    /\ nm_out' = FileDerivedName(nm_in)
    /\ UNCHANGED <<nm_in, nm_kind, parseVars, buildVars>>

InitName ==
    /\ nm_in \in NameInputs
    /\ nm_kind \in {"dir", "file"}
    /\ nm_out = NotScanned
    /\ IdleParse
    /\ IdleBuild

NextName == ScanDir \/ ScanFile

SpecName == InitName /\ [][NextName]_vars

-----------------------------------------------------------------------------
(* The parser, one file at a time *)

Parse ==
    /\ pf_result = NotParsed
    /\ pf_file # <<>>
    /\ pf_result' = parse_md_file(pf_file, pf_header)
    /\ UNCHANGED <<pf_file, pf_header, nameVars, buildVars>>

InitParse ==
    /\ pf_file \in ParseInputs
    /\ pf_header \in BOOLEAN
    /\ pf_result = NotParsed
    /\ IdleName
    /\ IdleBuild

NextParse == Parse

SpecParse == InitParse /\ [][NextParse]_vars

-----------------------------------------------------------------------------
(* What the properties speak of *)

\* the derived names of the folders on the path from the root
DerivedPath(p) == [k \in 1..Len(p) |-> get_name(p[k])]

\* a renderable node of the content tree: its folder and raw file name
Node(job) == [folder |-> job.folder, raw |-> job.raw]

AllPages ==
    {[folder |-> SubSeq(q, 1, Len(q) - 1), raw |-> q[Len(q)]] :
        q \in {r \in DOMAIN cfiles : EndsWith(r[Len(r)], DotMd)}}

WrittenNodes == {Node(written[i].job) : i \in 1..Len(written)}
TodoNodes == {Node(todo[i]) : i \in 1..Len(todo)}

\* the lines of a file between its two delimiters that declare key
DeclaringLines(text, key) ==
    {j \in 2..Len(text) :
        /\ text[j].key = key
        /\ \A k \in 2..j : ~text[k].dash
        /\ \E k \in (j + 1)..Len(text) : text[k].dash}

Declares(text, key) == DeclaringLines(text, key) # {}

DeclaredValue(text, key) ==
    text[CHOOSE j \in DeclaringLines(text, key) :
            \A k \in DeclaringLines(text, key) : k <= j].val

TextOf(job) == cfiles[Append(job.folder, job.raw)]

IsProperPrefix(a, b) == Len(a) < Len(b) /\ SubSeq(b, 1, Len(a)) = a

\* page a is rendered before page b: a folder's index, then its files by
\* raw file name, then its child folders by path, each with all below it
Precedes(a, b) ==
    IF a.folder = b.folder
    THEN \/ a.kind = "index" /\ b.kind = "file"
         \/ a.kind = "file" /\ b.kind = "file" /\ StrLess(a.raw, b.raw)
    ELSE IF IsProperPrefix(a.folder, b.folder) THEN TRUE
    ELSE IF IsProperPrefix(b.folder, a.folder) THEN FALSE
    ELSE LET k == CHOOSE n \in 1..Len(a.folder) :
                      /\ a.folder[n] # b.folder[n]
                      /\ \A m \in 1..(n - 1) : a.folder[m] = b.folder[m]
         IN  StrLess(a.folder[k], b.folder[k])

RenderFailures == {"SystemError", "TypeError", "AttributeError", "TemplateNotFound"}

\* the part of a filesystem below its .git entry, the entry included
GitPart(fs) == [q \in {r \in DOMAIN fs : Len(r) >= 1 /\ r[1] = GitName} |-> fs[q]]

-----------------------------------------------------------------------------
(* Properties of build() *)

\* C1: the index page of every folder, the root and every nested folder,
\* is written to <out-dir-of-folder>/index.html, the out-dir being the
\* output root extended by the derived names of the folders on the path.
C1_IndexInOwnDirectory ==
    \A i \in 1..Len(written) :
        written[i].job.kind = "index" =>
            written[i].path = Append(DerivedPath(written[i].job.folder), IndexHtml)

\* C2: every content file is written to
\* <out-dir-of-folder>/<file-derived-name>/index.html and the root index to
\* <public>/index.html; a root-level 1.a.md lands in <public>/a/index.html;
\* once the render has finished every content file has been written.
C2_ContentFilePaths ==
    /\ \A i \in 1..Len(written) :
          LET job == written[i].job
          IN  /\ IsFile(pub, written[i].path)
              /\ job.kind = "file" =>
                    written[i].path = DerivedPath(job.folder)
                                        \o <<FileDerivedName(job.raw), IndexHtml>>
              /\ job.kind = "index" /\ job.folder = <<>> =>
                    written[i].path = <<IndexHtml>>
              /\ job.folder = <<>> /\ job.raw = F_1a =>
                    written[i].path = <<A, IndexHtml>>
    /\ pc \in {"copy_site", "copy_theme", "done"} =>
          \A n \in AllPages : n.raw # IndexMd => n \in WrittenNodes

\* the build has returned with a page of a folder two levels down written
C2_Witness ==
    /\ pc = "done"
    /\ \E i \in 1..Len(written) :
          /\ written[i].job.kind = "file"
          /\ Len(written[i].job.folder) = 2
          /\ written[i].path =
                <<<<"a">>, <<"b">>, FileDerivedName(written[i].job.raw), IndexHtml>>

\* C3: a content file is rendered with its own `template`, else with the
\* `files_template` of the index of its folder, else with page.html; an
\* index page with its own `template`, else with index.html, whatever the
\* folder's `files_template`.
C3_TemplateSelection ==
    \A i \in 1..Len(written) :
        LET job == written[i].job
            idx == Append(job.folder, IndexMd)
        IN  written[i].template =
                IF Declares(TextOf(job), "template")
                THEN DeclaredValue(TextOf(job), "template")
                ELSE IF job.kind = "index" THEN <<"index.html">>
                ELSE IF idx \in DOMAIN cfiles /\ Declares(cfiles[idx], "files_template")
                THEN DeclaredValue(cfiles[idx], "files_template")
                ELSE <<"page.html">>

\* a folder whose index declares files_template and no template: the index
\* is rendered with index.html, a file without a template with
\* files_template, a file with its own template with that
C3_Witness ==
    \E i, j, k \in 1..Len(written) :
        /\ written[i].job.kind = "index"
        /\ Declares(TextOf(written[i].job), "files_template")
        /\ written[i].template = <<"index.html">>
        /\ written[j].job.folder = written[i].job.folder
        /\ written[j].job.raw = F_1a
        /\ written[j].template = <<"list.html">>
        /\ written[k].job.folder = written[i].job.folder
        /\ written[k].job.raw = F_2a
        /\ written[k].template = <<"custom.html">>

\* C8: clean, then render, then static copy; pages are rendered index
\* first, then files by raw name, then child folders by path; when parsing
\* or template resolution fails the build stops there: the failing page
\* and every later one are not written and nothing static is copied.
C8_FailFast ==
    /\ \A i, j \in 1..Len(written) :
          i < j => Precedes(written[i].job, written[j].job)
    /\ \A i \in 1..Len(written) : \A j \in 1..Len(todo) :
          Precedes(written[i].job, todo[j])
    /\ pc = "clean" => written = <<>> /\ copied = <<>>
    /\ pc # "clean" =>
          \A q \in DOMAIN pub : pub[q].data.by = "old" => q[1] = GitName
    /\ copied # <<>> => todo = <<>> /\ pc \notin {"clean", "render"}
    /\ \A i, j \in 1..Len(copied) :
          copied[i].from = "theme" /\ copied[j].from = "site" => j < i
    /\ pc \in {"clean", "render", "aborted"} /\ copied = <<>> =>
          /\ WrittenNodes \cup TodoNodes = AllPages
          /\ WrittenNodes \cap TodoNodes = {}
    /\ \A q \in DOMAIN pub :
          pub[q].data.by = "render" =>
              [folder |-> SubSeq(pub[q].data.src, 1, Len(pub[q].data.src) - 1),
               raw |-> pub[q].data.src[Len(pub[q].data.src)]]
                  \in WrittenNodes \ TodoNodes
    /\ err \in RenderFailures =>
          /\ pc = "aborted"
          /\ todo # <<>>
          /\ copied = <<>>
          /\ \A q \in DOMAIN pub : pub[q].data.by \notin {"site", "theme"}

\* a template is missing for a page after which others were still to come
C8_Witness ==
    /\ pc = "aborted"
    /\ err = "TemplateNotFound"
    /\ written # <<>>
    /\ Len(todo) >= 2
    /\ \E q \in DOMAIN site : site[q].kind = "file"

LeafName(job) ==
    IF job.kind = "index" THEN FolderName(job.folder) ELSE FileDerivedName(job.raw)

C10_GitUntouched == GitPart(pub) = GitPart(pub0)

\* C7: after build() every immediate entry of the site-wide and of the
\* theme's static directory is in the output root under its name, the
\* site-wide entries copied first; a name in both holds the theme's version.
C7_StaticLayering ==
    /\ \A i, j \in 1..Len(copied) :
          copied[i].from = "theme" /\ copied[j].from = "site" => j < i
    /\ ~(pc = "aborted" /\ copied # <<>>)
    /\ pc = "done" =>
          \A x \in Entries(site) \cup Entries(theme) :
              LET src == IF Exists(theme, <<x>>) THEN theme ELSE site
              IN  \A q \in DOMAIN src :
                      Len(q) >= 1 /\ q[1] = x => Exists(pub, q) /\ pub[q] = src[q]

-----------------------------------------------------------------------------
(* Properties of the parser and of the derived names *)

\* the file line of the second delimiter, 0 if there is none
SecondDelimiter(file) ==
    LET ds == {k \in 2..Len(file) : file[k].dash}
    IN  IF ds = {} THEN 0 ELSE CHOOSE k \in ds : \A j \in ds : k <= j

DeclaredKeys(file) == {k \in {"template", "title", "files_template"} : Declares(file, k)}

\* C4: a file that opens with `---` and has its second `---` within 50
\* lines parses, whatever keys it declares, to a record with every declared
\* key and its value, plus `content`, the HTML of the text after the second
\* delimiter, unless header_only, when no `content` is added.
C4_ParsesDeclaredKeys ==
    (/\ pf_result # NotParsed
     /\ pf_file[1].dash
     /\ SecondDelimiter(pf_file) \in 2..50)
    => /\ pf_result.ok
       /\ ~pf_result.page.none
       /\ \A k \in DeclaredKeys(pf_file) :
             /\ k \in DOMAIN pf_result.page.map
             /\ pf_result.page.map[k] = DeclaredValue(pf_file, k)
       /\ pf_header => "content" \notin DOMAIN pf_result.page.map
       /\ ~pf_header =>
             /\ "content" \in DOMAIN pf_result.page.map
             /\ pf_result.page.map["content"] =
                   ToHtml(SubSeq(pf_file, SecondDelimiter(pf_file) + 1, Len(pf_file)))

\* C5: parsing fails when the first line does not start with `---`, and
\* when no line starting with `---` is among the 50 lines after the opening
\* delimiter, the end of the file before any such line included.
C5_RejectsUndelimited ==
    (/\ pf_result # NotParsed
     /\ \/ ~pf_file[1].dash
        \/ SecondDelimiter(pf_file) \notin 2..51)
    => ~pf_result.ok

\* a name without its leading digits and dot, when it has them and
\* something follows
StripNumericPrefix(s) ==
    LET ks == {k \in 1..(Len(s) - 2) :
                  /\ \A i \in 1..k : IsDigit(s[i])
                  /\ s[k + 1] = "."}
    IN  IF ks = {} THEN s
        ELSE SubSeq(s, (CHOOSE k \in ks : \A j \in ks : j <= k) + 2, Len(s))

\* a file name without its `.md` extension; a name that is all dots before
\* `md` has none
WithoutMd(s) ==
    IF \E i \in 1..(Len(s) - Len(DotMd)) : s[i] # "."
    THEN SubSeq(s, 1, Len(s) - Len(DotMd))
    ELSE s

\* C6: get_name removes one leading digits-and-dot prefix from a directory
\* name and leaves any other name alone; the derived name of a content file
\* is its name without the `.md` extension and without that prefix.
C6_DerivedNames ==
    nm_out # NotScanned =>
        /\ nm_kind = "dir" => nm_out = StripNumericPrefix(nm_in)
        /\ nm_kind = "file" =>
              nm_out = StripNumericPrefix(WithoutMd(nm_in))

=============================================================================
